---- MODULE Spec2Model ----
(***************************************************************************)
(* bitlib: bit scatter/gather, 2D and 3D interleaving (shift.h) and Morton *)
(* neighbour arithmetic (morton.h).                                        *)
(*                                                                         *)
(* A machine word is modelled as the set of its set bit positions, so that *)
(* 32 and 64 bit words are exact.  Every C function is an operator with    *)
(* the name it has in the source, built from the same shifts, masks and    *)
(* additions in the same order, with the literal constants of the source.  *)
(* uint8_t and uint16_t operands are promoted to a 32 bit int before any   *)
(* arithmetic and truncated when stored or returned; uint32_t and uint64_t *)
(* arithmetic wraps at its own width.                                      *)
(***************************************************************************)
EXTENDS Integers, Sequences, FiniteSets

VARIABLES w, d, cx, cy, cz, key, sp, ga, op, prev, steps,
          other, okey, start, net, limit, arg, acc, cnt

vars == <<w, d, cx, cy, cz, key, sp, ga, op, prev, steps,
          other, okey, start, net, limit, arg, acc, cnt>>

\* the second coordinate tuple of a comparison and its key
orderVars == <<other, okey>>

\* the start key of a walk, the net number of steps taken along each axis
\* and the number of steps the walk may take
walkVars == <<start, net, limit>>

\* the argument of a popcount call, its local x and its counter or result
popVars == <<arg, acc, cnt>>

(***************************************************************************)
(* Word arithmetic.                                                        *)
(***************************************************************************)

\* the bit positions of a word of the given width
Bits(width) == 0 .. (width - 1)

\* the set bits of each hexadecimal digit 0 .. f
HexDigit ==
    << {}, {0}, {1}, {0, 1}, {2}, {0, 2}, {1, 2}, {0, 1, 2},
       {3}, {0, 3}, {1, 3}, {0, 1, 3}, {2, 3}, {0, 2, 3}, {1, 2, 3}, {0, 1, 2, 3} >>

\* a hexadecimal literal, most significant digit first, as a word
Hex(digits) ==
    UNION { { 4 * (Len(digits) - i) + b : b \in HexDigit[digits[i] + 1] } : i \in 1 .. Len(digits) }

\* a & b
And(a, b) == a \cap b

\* a | b
Or(a, b) == a \cup b

\* a << k, evaluated in a type of the given width
Shl(a, k, width) == { i + k : i \in a } \cap Bits(width)

\* a >> k of a non-negative value
Shr(a, k) == { i - k : i \in { j \in a : j >= k } }

\* conversion to an unsigned type of the given width
Trunc(a, width) == a \cap Bits(width)

\* ripple carry addition from bit i upward with carry c, modulo 2^width
RECURSIVE AddFrom(_, _, _, _, _)
AddFrom(a, b, i, c, width) ==
    IF i >= width THEN {}
    ELSE LET t == (IF i \in a THEN 1 ELSE 0) + (IF i \in b THEN 1 ELSE 0) + c
         IN  (IF t % 2 = 1 THEN {i} ELSE {}) \cup AddFrom(a, b, i + 1, t \div 2, width)

\* a + b in a two's complement type of the given width
Add(a, b, width) == AddFrom(a, b, 0, 0, width)

\* a - b in a two's complement type of the given width
Sub(a, b, width) == AddFrom(a, Bits(width) \ b, 0, 1, width)

\* the literal 1
One == {0}

\* a * b modulo 2^width: a shifted to every set bit of b, summed
RECURSIVE Mul(_, _, _)
Mul(a, b, width) ==
    IF b = {} THEN {}
    ELSE LET i == CHOOSE j \in b : TRUE
         IN  Add(Shl(a, i, width), Mul(a, b \ {i}, width), width)

(***************************************************************************)
(* shift.h                                                                 *)
(***************************************************************************)

\* shift.h:22
scatter_8(x) ==
    LET x1 == Trunc(And(Or(x, Shl(x, 2, 32)), Hex(<<3, 3>>)), 8)
        x2 == Trunc(And(Or(x1, Shl(x1, 1, 32)), Hex(<<5, 5>>)), 8)
    IN  x2

\* shift.h:36
scatter_16(x) ==
    LET x1 == Trunc(And(Or(x, Shl(x, 4, 32)), Hex(<<0, 15, 0, 15>>)), 16)
        x2 == Trunc(And(Or(x1, Shl(x1, 2, 32)), Hex(<<3, 3, 3, 3>>)), 16)
        x3 == Trunc(And(Or(x2, Shl(x2, 1, 32)), Hex(<<5, 5, 5, 5>>)), 16)
    IN  x3

\* shift.h:51
scatter_32(x) ==
    LET x1 == Trunc(And(Or(x, Shl(x, 8, 32)), Hex(<<0, 0, 15, 15, 0, 0, 15, 15>>)), 32)
        x2 == Trunc(And(Or(x1, Shl(x1, 4, 32)), Hex(<<0, 15, 0, 15, 0, 15, 0, 15>>)), 32)
        x3 == Trunc(And(Or(x2, Shl(x2, 2, 32)), Hex(<<3, 3, 3, 3, 3, 3, 3, 3>>)), 32)
        x4 == Trunc(And(Or(x3, Shl(x3, 1, 32)), Hex(<<5, 5, 5, 5, 5, 5, 5, 5>>)), 32)
    IN  x4

\* shift.h:67
scatter_64(x) ==
    LET x1 == Trunc(And(Or(x, Shl(x, 16, 64)), Hex(<<0, 0, 0, 0, 15, 15, 15, 15, 0, 0, 0, 0, 15, 15, 15, 15>>)), 64)
        x2 == Trunc(And(Or(x1, Shl(x1, 8, 64)), Hex(<<0, 0, 15, 15, 0, 0, 15, 15, 0, 0, 15, 15, 0, 0, 15, 15>>)), 64)
        x3 == Trunc(And(Or(x2, Shl(x2, 4, 64)), Hex(<<0, 15, 0, 15, 0, 15, 0, 15, 0, 15, 0, 15, 0, 15, 0, 15>>)), 64)
        x4 == Trunc(And(Or(x3, Shl(x3, 2, 64)), Hex(<<3, 3, 3, 3, 3, 3, 3, 3, 3, 3, 3, 3, 3, 3, 3, 3>>)), 64)
        x5 == Trunc(And(Or(x4, Shl(x4, 1, 64)), Hex(<<5, 5, 5, 5, 5, 5, 5, 5, 5, 5, 5, 5, 5, 5, 5, 5>>)), 64)
    IN  x5

\* shift.h:85
merge_8(x, y) ==
    LET m1 == Trunc(Or(Trunc(x, 16), Shl(Trunc(y, 16), 8, 32)), 16)
        m2 == scatter_16(m1)
    IN  Trunc(Or(m2, Shr(m2, 7)), 8)

\* shift.h:102
merge_nwe_8(x, y) ==
    LET x1 == scatter_8(x)
        y1 == scatter_8(y)
    IN  Trunc(Or(x1, Shl(y1, 1, 32)), 8)

\* merge_16 with the halves folded by 16 instead of 15
merge_16_shift16(x, y) ==
    LET m1 == Trunc(Or(Trunc(x, 32), Shl(Trunc(y, 32), 16, 32)), 32)
        m2 == scatter_32(m1)
    IN  Trunc(Or(m2, Shr(m2, 16)), 16)

\* shift.h:116
merge_16(x, y) ==
    LET m1 == Trunc(Or(Trunc(x, 32), Shl(Trunc(y, 32), 16, 32)), 32)
        m2 == scatter_32(m1)
    IN  Trunc(Or(m2, Shr(m2, 15)), 16)

\* shift.h:133
merge_nwe_16(x, y) ==
    LET x1 == scatter_16(x)
        y1 == scatter_16(y)
    IN  Trunc(Or(x1, Shl(y1, 1, 32)), 16)

\* shift.h:147
merge_32(x, y) ==
    LET m1 == Trunc(Or(Trunc(x, 64), Shl(Trunc(y, 64), 32, 64)), 64)
        m2 == scatter_64(m1)
    IN  Trunc(Or(m2, Shr(m2, 31)), 32)

\* shift.h:164
merge_nwe_32(x, y) ==
    LET x1 == scatter_32(x)
        y1 == scatter_32(y)
    IN  Trunc(Or(x1, Shl(y1, 1, 32)), 32)

\* shift.h:178
merge_64(x, y) ==
    LET x1 == scatter_64(x)
        y1 == scatter_64(y)
    IN  Trunc(Or(x1, Shl(y1, 1, 64)), 64)

\* shift.h:191
gather_8(x) ==
    LET x1 == Trunc(And(Or(x, Shr(x, 1)), Hex(<<3, 3>>)), 8)
        x2 == Trunc(And(Or(x1, Shr(x1, 2)), Hex(<<0, 15>>)), 8)
    IN  x2

\* shift.h:204
gather_16(x) ==
    LET x1 == Trunc(And(Or(x, Shr(x, 1)), Hex(<<3, 3, 3, 3>>)), 16)
        x2 == Trunc(And(Or(x1, Shr(x1, 2)), Hex(<<0, 15, 0, 15>>)), 16)
        x3 == Trunc(And(Or(x2, Shr(x2, 4)), Hex(<<0, 0, 15, 15>>)), 16)
    IN  x3

\* shift.h:218
gather_32(x) ==
    LET x1 == Trunc(And(Or(x, Shr(x, 1)), Hex(<<3, 3, 3, 3, 3, 3, 3, 3>>)), 32)
        x2 == Trunc(And(Or(x1, Shr(x1, 2)), Hex(<<0, 15, 0, 15, 0, 15, 0, 15>>)), 32)
        x3 == Trunc(And(Or(x2, Shr(x2, 4)), Hex(<<0, 0, 15, 15, 0, 0, 15, 15>>)), 32)
        x4 == Trunc(And(Or(x3, Shr(x3, 8)), Hex(<<0, 0, 0, 0, 15, 15, 15, 15>>)), 32)
    IN  x4

\* shift.h:233
gather_64(x) ==
    LET x1 == Trunc(And(Or(x, Shr(x, 1)), Hex(<<3, 3, 3, 3, 3, 3, 3, 3, 3, 3, 3, 3, 3, 3, 3, 3>>)), 64)
        x2 == Trunc(And(Or(x1, Shr(x1, 2)), Hex(<<0, 15, 0, 15, 0, 15, 0, 15, 0, 15, 0, 15, 0, 15, 0, 15>>)), 64)
        x3 == Trunc(And(Or(x2, Shr(x2, 4)), Hex(<<0, 0, 15, 15, 0, 0, 15, 15, 0, 0, 15, 15, 0, 0, 15, 15>>)), 64)
        x4 == Trunc(And(Or(x3, Shr(x3, 8)), Hex(<<0, 0, 0, 0, 15, 15, 15, 15, 0, 0, 0, 0, 15, 15, 15, 15>>)), 64)
        x5 == Trunc(And(Or(x4, Shr(x4, 16)), Hex(<<0, 0, 0, 0, 0, 0, 0, 0, 15, 15, 15, 15, 15, 15, 15, 15>>)), 64)
    IN  x5

\* shift.h:249
separate_8(n) ==
    LET m1 == Trunc(And(Or(Trunc(n, 16), Shl(Trunc(n, 16), 7, 32)), Hex(<<5, 5, 5, 5>>)), 16)
        m2 == gather_16(m1)
    IN  <<Trunc(And(m2, Hex(<<0, 15>>)), 8), Trunc(Shr(m2, 4), 8)>>

\* separate_nwe_8 with the y bits not shifted down before gathering
separate_nwe_8_noshift(n) ==
    <<gather_8(Trunc(And(n, Hex(<<5, 5>>)), 8)),
      gather_8(Trunc(And(n, Hex(<<10, 10>>)), 8))>>

\* shift.h:266
separate_nwe_8(n) ==
    <<gather_8(Trunc(And(n, Hex(<<5, 5>>)), 8)),
      gather_8(Trunc(Shr(And(n, Hex(<<10, 10>>)), 1), 8))>>

\* shift.h:278
separate_16(n) ==
    LET m1 == Trunc(And(Or(Trunc(n, 32), Shl(Trunc(n, 32), 15, 32)), Hex(<<5, 5, 5, 5, 5, 5, 5, 5>>)), 32)
        m2 == gather_32(m1)
    IN  <<Trunc(And(m2, Hex(<<0, 0, 15, 15>>)), 16), Trunc(Shr(m2, 8), 16)>>

\* shift.h:294
separate_nwe_16(n) ==
    <<gather_16(Trunc(And(n, Hex(<<5, 5, 5, 5>>)), 16)),
      gather_16(Trunc(Shr(And(n, Hex(<<10, 10, 10, 10>>)), 1), 16))>>

\* shift.h:306
separate_32(n) ==
    LET m1 == Trunc(And(Or(Trunc(n, 64), Shl(Trunc(n, 64), 31, 64)), Hex(<<5, 5, 5, 5, 5, 5, 5, 5, 5, 5, 5, 5, 5, 5, 5, 5>>)), 64)
        m2 == gather_64(m1)
    IN  <<Trunc(And(m2, Hex(<<0, 0, 0, 0, 15, 15, 15, 15>>)), 32), Trunc(Shr(m2, 16), 32)>>

\* shift.h:320
separate_nwe_32(n) ==
    <<gather_32(Trunc(And(n, Hex(<<5, 5, 5, 5, 5, 5, 5, 5>>)), 32)),
      gather_32(Trunc(Shr(And(n, Hex(<<10, 10, 10, 10, 10, 10, 10, 10>>)), 1), 32))>>

\* shift.h:331
separate_64(n) ==
    <<gather_64(Trunc(And(n, Hex(<<5, 5, 5, 5, 5, 5, 5, 5, 5, 5, 5, 5, 5, 5, 5, 5>>)), 64)),
      gather_64(Trunc(Shr(And(n, Hex(<<10, 10, 10, 10, 10, 10, 10, 10, 10, 10, 10, 10, 10, 10, 10, 10>>)), 1), 64))>>

\* shift.h:343
scatter3_8(x) ==
    LET x1 == Trunc(And(Or(x, Shl(x, 4, 32)), Hex(<<12, 7>>)), 8)
        x2 == Trunc(And(Or(x1, Shl(x1, 2, 32)), Hex(<<4, 9>>)), 8)
    IN  x2

\* shift.h:356
scatter3_16(x) ==
    LET x1 == Trunc(And(Or(x, Shl(x, 8, 32)), Hex(<<15, 0, 3, 15>>)), 16)
        x2 == Trunc(And(Or(x1, Shl(x1, 4, 32)), Hex(<<7, 1, 12, 7>>)), 16)
        x3 == Trunc(And(Or(x2, Shl(x2, 2, 32)), Hex(<<9, 2, 4, 9>>)), 16)
    IN  x3

\* shift.h:370
scatter3_32(x) ==
    LET x1 == Trunc(And(Or(x, Shl(x, 16, 32)), Hex(<<15, 15, 0, 0, 0, 15, 15, 15>>)), 32)
        x2 == Trunc(And(Or(x1, Shl(x1, 8, 32)), Hex(<<3, 15, 0, 3, 15, 0, 3, 15>>)), 32)
        x3 == Trunc(And(Or(x2, Shl(x2, 4, 32)), Hex(<<12, 7, 1, 12, 7, 1, 12, 7>>)), 32)
        x4 == Trunc(And(Or(x3, Shl(x3, 2, 32)), Hex(<<4, 9, 2, 4, 9, 2, 4, 9>>)), 32)
    IN  x4

\* scatter3_64 with the last stage left out
scatter3_64_short(x) ==
    LET x1 == Trunc(And(Or(x, Shl(x, 32, 64)), Hex(<<15, 15, 15, 15, 0, 0, 0, 0, 0, 0, 15, 15, 15, 15, 15, 15>>)), 64)
        x2 == Trunc(And(Or(x1, Shl(x1, 16, 64)), Hex(<<0, 15, 15, 15, 0, 0, 0, 15, 15, 15, 0, 0, 0, 15, 15, 15>>)), 64)
        x3 == Trunc(And(Or(x2, Shl(x2, 8, 64)), Hex(<<15, 0, 3, 15, 0, 3, 15, 0, 3, 15, 0, 3, 15, 0, 3, 15>>)), 64)
        x4 == Trunc(And(Or(x3, Shl(x3, 4, 64)), Hex(<<7, 1, 12, 7, 1, 12, 7, 1, 12, 7, 1, 12, 7, 1, 12, 7>>)), 64)
        x5 == Trunc(And(Or(x4, Shl(x4, 2, 64)), Hex(<<9, 2, 4, 9, 2, 4, 9, 2, 4, 9, 2, 4, 9, 2, 4, 9>>)), 64)
    IN  x4

\* shift.h:385
scatter3_64(x) ==
    LET x1 == Trunc(And(Or(x, Shl(x, 32, 64)), Hex(<<15, 15, 15, 15, 0, 0, 0, 0, 0, 0, 15, 15, 15, 15, 15, 15>>)), 64)
        x2 == Trunc(And(Or(x1, Shl(x1, 16, 64)), Hex(<<0, 15, 15, 15, 0, 0, 0, 15, 15, 15, 0, 0, 0, 15, 15, 15>>)), 64)
        x3 == Trunc(And(Or(x2, Shl(x2, 8, 64)), Hex(<<15, 0, 3, 15, 0, 3, 15, 0, 3, 15, 0, 3, 15, 0, 3, 15>>)), 64)
        x4 == Trunc(And(Or(x3, Shl(x3, 4, 64)), Hex(<<7, 1, 12, 7, 1, 12, 7, 1, 12, 7, 1, 12, 7, 1, 12, 7>>)), 64)
        x5 == Trunc(And(Or(x4, Shl(x4, 2, 64)), Hex(<<9, 2, 4, 9, 2, 4, 9, 2, 4, 9, 2, 4, 9, 2, 4, 9>>)), 64)
    IN  x5

\* shift.h:403
merge3_8(x, y, z) ==
    LET x1 == scatter3_8(x)
        y1 == scatter3_8(y)
        z1 == Trunc(And(Or(z, Shl(z, 4, 32)), Hex(<<12, 7>>)), 8)
    IN  Trunc(Or(Or(x1, Shl(y1, 1, 32)), Shl(z1, 2, 32)), 8)

\* shift.h:423
merge3_16(x, y, z) ==
    LET x1 == scatter3_16(x)
        y1 == scatter3_16(y)
        z1 == scatter3_16(z)
    IN  Trunc(Or(Or(x1, Shl(y1, 1, 32)), Shl(z1, 2, 32)), 16)

\* shift.h:440
merge3_32(x, y, z) ==
    LET x1 == scatter3_32(x)
        y1 == scatter3_32(y)
        z1 == scatter3_32(z)
    IN  Trunc(Or(Or(x1, Shl(y1, 1, 32)), Shl(z1, 2, 32)), 32)

\* shift.h:457
merge3_64(x, y, z) ==
    LET x1 == scatter3_64(x)
        y1 == scatter3_64(y)
        z1 == scatter3_64(z)
    IN  Trunc(Or(Or(x1, Shl(y1, 1, 64)), Shl(z1, 2, 64)), 64)

\* gather3_8 with the last stage shifting by 3 instead of 4
gather3_8_shift3(x) ==
    LET x1 == Trunc(And(Or(x, Shr(x, 2)), Hex(<<12, 7>>)), 8)
        x2 == Trunc(And(Or(x1, Shr(x1, 3)), Hex(<<3, 15>>)), 8)
    IN  x2

\* shift.h:472
gather3_8(x) ==
    LET x1 == Trunc(And(Or(x, Shr(x, 2)), Hex(<<12, 7>>)), 8)
        x2 == Trunc(And(Or(x1, Shr(x1, 4)), Hex(<<3, 15>>)), 8)
    IN  x2

\* shift.h:486
gather3_16(x) ==
    LET x1 == Trunc(And(Or(x, Shr(x, 2)), Hex(<<7, 1, 12, 7>>)), 16)
        x2 == Trunc(And(Or(x1, Shr(x1, 4)), Hex(<<15, 0, 3, 15>>)), 16)
        x3 == Trunc(And(Or(x2, Shr(x2, 8)), Hex(<<0, 15, 15, 15>>)), 16)
    IN  x3

\* gather3_32 with the last stage shifting by 8 instead of 16
gather3_32_shift8(x) ==
    LET x1 == Trunc(And(Or(x, Shr(x, 2)), Hex(<<12, 7, 1, 12, 7, 1, 12, 7>>)), 32)
        x2 == Trunc(And(Or(x1, Shr(x1, 4)), Hex(<<3, 15, 0, 3, 15, 0, 3, 15>>)), 32)
        x3 == Trunc(And(Or(x2, Shr(x2, 8)), Hex(<<15, 15, 0, 0, 0, 15, 15, 15>>)), 32)
        x4 == Trunc(And(Or(x3, Shr(x3, 8)), Hex(<<0, 0, 15, 15, 15, 15, 15, 15>>)), 32)
    IN  x4

\* shift.h:500
gather3_32(x) ==
    LET x1 == Trunc(And(Or(x, Shr(x, 2)), Hex(<<12, 7, 1, 12, 7, 1, 12, 7>>)), 32)
        x2 == Trunc(And(Or(x1, Shr(x1, 4)), Hex(<<3, 15, 0, 3, 15, 0, 3, 15>>)), 32)
        x3 == Trunc(And(Or(x2, Shr(x2, 8)), Hex(<<15, 15, 0, 0, 0, 15, 15, 15>>)), 32)
        x4 == Trunc(And(Or(x3, Shr(x3, 16)), Hex(<<0, 0, 15, 15, 15, 15, 15, 15>>)), 32)
    IN  x4

\* shift.h:515
gather3_64(x) ==
    LET x1 == Trunc(And(Or(x, Shr(x, 2)), Hex(<<7, 1, 12, 7, 1, 12, 7, 1, 12, 7, 1, 12, 7, 1, 12, 7>>)), 64)
        x2 == Trunc(And(Or(x1, Shr(x1, 4)), Hex(<<15, 0, 3, 15, 0, 3, 15, 0, 3, 15, 0, 3, 15, 0, 3, 15>>)), 64)
        x3 == Trunc(And(Or(x2, Shr(x2, 8)), Hex(<<0, 15, 15, 15, 0, 0, 0, 15, 15, 15, 0, 0, 0, 15, 15, 15>>)), 64)
        x4 == Trunc(And(Or(x3, Shr(x3, 16)), Hex(<<15, 15, 15, 15, 0, 0, 0, 0, 0, 0, 15, 15, 15, 15, 15, 15>>)), 64)
        x5 == Trunc(And(Or(x4, Shr(x4, 32)), Hex(<<0, 0, 0, 0, 15, 15, 15, 15, 15, 15, 15, 15, 15, 15, 15, 15>>)), 64)
    IN  x5

\* shift.h:531
separate3_8(n) ==
    <<gather3_8(Trunc(And(n, Hex(<<4, 9>>)), 8)),
      gather3_8(Trunc(And(Shr(n, 1), Hex(<<4, 9>>)), 8)),
      gather3_8(Trunc(And(Shr(n, 2), Hex(<<4, 9>>)), 8))>>

\* shift.h:544
separate3_16(n) ==
    <<gather3_16(Trunc(And(n, Hex(<<9, 2, 4, 9>>)), 16)),
      gather3_16(Trunc(And(Shr(n, 1), Hex(<<9, 2, 4, 9>>)), 16)),
      gather3_16(Trunc(And(Shr(n, 2), Hex(<<9, 2, 4, 9>>)), 16))>>

\* shift.h:557
separate3_32(n) ==
    <<gather3_32(Trunc(And(n, Hex(<<4, 9, 2, 4, 9, 2, 4, 9>>)), 32)),
      gather3_32(Trunc(And(Shr(n, 1), Hex(<<4, 9, 2, 4, 9, 2, 4, 9>>)), 32)),
      gather3_32(Trunc(And(Shr(n, 2), Hex(<<4, 9, 2, 4, 9, 2, 4, 9>>)), 32))>>

\* shift.h:570
separate3_64(n) ==
    <<gather3_64(Trunc(And(n, Hex(<<9, 2, 4, 9, 2, 4, 9, 2, 4, 9, 2, 4, 9, 2, 4, 9>>)), 64)),
      gather3_64(Trunc(And(Shr(n, 1), Hex(<<9, 2, 4, 9, 2, 4, 9, 2, 4, 9, 2, 4, 9, 2, 4, 9>>)), 64)),
      gather3_64(Trunc(And(Shr(n, 2), Hex(<<9, 2, 4, 9, 2, 4, 9, 2, 4, 9, 2, 4, 9, 2, 4, 9>>)), 64))>>

(***************************************************************************)
(* morton.h                                                                *)
(***************************************************************************)

\* mortonym_8 with the x mask in place of the y mask on the difference
mortonym_8_xmask(m) ==
    Trunc(Or(And(Sub(And(m, Hex(<<10, 10>>)), One, 32), Hex(<<5, 5>>)), And(m, Hex(<<5, 5>>))), 8)

\* morton.h:133
mortonym_8(m) ==
    Trunc(Or(And(Sub(And(m, Hex(<<10, 10>>)), One, 32), Hex(<<10, 10>>)), And(m, Hex(<<5, 5>>))), 8)

\* morton.h:143
mortonym_16(m) ==
    Trunc(Or(And(Sub(And(m, Hex(<<10, 10, 10, 10>>)), One, 32), Hex(<<10, 10, 10, 10>>)), And(m, Hex(<<5, 5, 5, 5>>))), 16)

\* morton.h:153
mortonym_32(m) ==
    Trunc(Or(And(Sub(And(m, Hex(<<10, 10, 10, 10, 10, 10, 10, 10>>)), One, 32), Hex(<<10, 10, 10, 10, 10, 10, 10, 10>>)), And(m, Hex(<<5, 5, 5, 5, 5, 5, 5, 5>>))), 32)

\* morton.h:163
mortonym_64(m) ==
    Trunc(Or(And(Sub(And(m, Hex(<<10, 10, 10, 10, 10, 10, 10, 10, 10, 10, 10, 10, 10, 10, 10, 10>>)), One, 64), Hex(<<10, 10, 10, 10, 10, 10, 10, 10, 10, 10, 10, 10, 10, 10, 10, 10>>)), And(m, Hex(<<5, 5, 5, 5, 5, 5, 5, 5, 5, 5, 5, 5, 5, 5, 5, 5>>))), 64)

\* mortonyp_8 with bit 0 missing from the mask of the bits kept
mortonyp_8_frame(m) ==
    Trunc(Or(And(Add(Or(m, Hex(<<5, 5>>)), One, 32), Hex(<<10, 10>>)), And(m, Hex(<<5, 4>>))), 8)

\* morton.h:173
mortonyp_8(m) ==
    Trunc(Or(And(Add(Or(m, Hex(<<5, 5>>)), One, 32), Hex(<<10, 10>>)), And(m, Hex(<<5, 5>>))), 8)

\* morton.h:183
mortonyp_16(m) ==
    Trunc(Or(And(Add(Or(m, Hex(<<5, 5, 5, 5>>)), One, 32), Hex(<<10, 10, 10, 10>>)), And(m, Hex(<<5, 5, 5, 5>>))), 16)

\* morton.h:193
mortonyp_32(m) ==
    Trunc(Or(And(Add(Or(m, Hex(<<5, 5, 5, 5, 5, 5, 5, 5>>)), One, 32), Hex(<<10, 10, 10, 10, 10, 10, 10, 10>>)), And(m, Hex(<<5, 5, 5, 5, 5, 5, 5, 5>>))), 32)

\* morton.h:203
mortonyp_64(m) ==
    Trunc(Or(And(Add(Or(m, Hex(<<5, 5, 5, 5, 5, 5, 5, 5, 5, 5, 5, 5, 5, 5, 5, 5>>)), One, 64), Hex(<<10, 10, 10, 10, 10, 10, 10, 10, 10, 10, 10, 10, 10, 10, 10, 10>>)), And(m, Hex(<<5, 5, 5, 5, 5, 5, 5, 5, 5, 5, 5, 5, 5, 5, 5, 5>>))), 64)

\* morton.h:213
mortonxm_8(m) ==
    Trunc(Or(And(Sub(And(m, Hex(<<5, 5>>)), One, 32), Hex(<<5, 5>>)), And(m, Hex(<<10, 10>>))), 8)

\* morton.h:223
mortonxm_16(m) ==
    Trunc(Or(And(Sub(And(m, Hex(<<5, 5, 5, 5>>)), One, 32), Hex(<<5, 5, 5, 5>>)), And(m, Hex(<<10, 10, 10, 10>>))), 16)

\* morton.h:233
mortonxm_32(m) ==
    Trunc(Or(And(Sub(And(m, Hex(<<5, 5, 5, 5, 5, 5, 5, 5>>)), One, 32), Hex(<<5, 5, 5, 5, 5, 5, 5, 5>>)), And(m, Hex(<<10, 10, 10, 10, 10, 10, 10, 10>>))), 32)

\* morton.h:243
mortonxm_64(m) ==
    Trunc(Or(And(Sub(And(m, Hex(<<5, 5, 5, 5, 5, 5, 5, 5, 5, 5, 5, 5, 5, 5, 5, 5>>)), One, 64), Hex(<<5, 5, 5, 5, 5, 5, 5, 5, 5, 5, 5, 5, 5, 5, 5, 5>>)), And(m, Hex(<<10, 10, 10, 10, 10, 10, 10, 10, 10, 10, 10, 10, 10, 10, 10, 10>>))), 64)

\* morton.h:253
mortonxp_8(m) ==
    Trunc(Or(And(Add(Or(m, Hex(<<10, 10>>)), One, 32), Hex(<<5, 5>>)), And(m, Hex(<<10, 10>>))), 8)

\* mortonxp_16 with bit 1 missing from the fill mask, so the carry stops there
mortonxp_16_fill(m) ==
    Trunc(Or(And(Add(Or(m, Hex(<<10, 10, 10, 8>>)), One, 32), Hex(<<5, 5, 5, 5>>)), And(m, Hex(<<10, 10, 10, 10>>))), 16)

\* morton.h:263
mortonxp_16(m) ==
    Trunc(Or(And(Add(Or(m, Hex(<<10, 10, 10, 10>>)), One, 32), Hex(<<5, 5, 5, 5>>)), And(m, Hex(<<10, 10, 10, 10>>))), 16)

\* morton.h:273
mortonxp_32(m) ==
    Trunc(Or(And(Add(Or(m, Hex(<<10, 10, 10, 10, 10, 10, 10, 10>>)), One, 32), Hex(<<5, 5, 5, 5, 5, 5, 5, 5>>)), And(m, Hex(<<10, 10, 10, 10, 10, 10, 10, 10>>))), 32)

\* morton.h:283
mortonxp_64(m) ==
    Trunc(Or(And(Add(Or(m, Hex(<<10, 10, 10, 10, 10, 10, 10, 10, 10, 10, 10, 10, 10, 10, 10, 10>>)), One, 64), Hex(<<5, 5, 5, 5, 5, 5, 5, 5, 5, 5, 5, 5, 5, 5, 5, 5>>)), And(m, Hex(<<10, 10, 10, 10, 10, 10, 10, 10, 10, 10, 10, 10, 10, 10, 10, 10>>))), 64)

\* morton.h:293
mortonym3_8(m) ==
    Trunc(Or(And(Sub(And(m, Hex(<<9, 2>>)), One, 32), Hex(<<9, 2>>)), And(m, Hex(<<6, 13>>))), 8)

\* morton.h:303
mortonym3_16(m) ==
    Trunc(Or(And(Sub(And(m, Hex(<<2, 4, 9, 2>>)), One, 32), Hex(<<2, 4, 9, 2>>)), And(m, Hex(<<13, 11, 6, 13>>))), 16)

\* morton.h:313
mortonym3_32(m) ==
    Trunc(Or(And(Sub(And(m, Hex(<<9, 2, 4, 9, 2, 4, 9, 2>>)), One, 32), Hex(<<9, 2, 4, 9, 2, 4, 9, 2>>)), And(m, Hex(<<6, 13, 11, 6, 13, 11, 6, 13>>))), 32)

\* morton.h:323
mortonym3_64(m) ==
    Trunc(Or(And(Sub(And(m, Hex(<<2, 4, 9, 2, 4, 9, 2, 4, 9, 2, 4, 9, 2, 4, 9, 2>>)), One, 64), Hex(<<2, 4, 9, 2, 4, 9, 2, 4, 9, 2, 4, 9, 2, 4, 9, 2>>)), And(m, Hex(<<13, 11, 6, 13, 11, 6, 13, 11, 6, 13, 11, 6, 13, 11, 6, 13>>))), 64)

\* morton.h:333
mortonyp3_8(m) ==
    Trunc(Or(And(Add(Or(m, Hex(<<6, 13>>)), One, 32), Hex(<<9, 2>>)), And(m, Hex(<<6, 13>>))), 8)

\* morton.h:343
mortonyp3_16(m) ==
    Trunc(Or(And(Add(Or(m, Hex(<<13, 11, 6, 13>>)), One, 32), Hex(<<2, 4, 9, 2>>)), And(m, Hex(<<13, 11, 6, 13>>))), 16)

\* morton.h:353
mortonyp3_32(m) ==
    Trunc(Or(And(Add(Or(m, Hex(<<6, 13, 11, 6, 13, 11, 6, 13>>)), One, 32), Hex(<<9, 2, 4, 9, 2, 4, 9, 2>>)), And(m, Hex(<<6, 13, 11, 6, 13, 11, 6, 13>>))), 32)

\* morton.h:363
mortonyp3_64(m) ==
    Trunc(Or(And(Add(Or(m, Hex(<<13, 11, 6, 13, 11, 6, 13, 11, 6, 13, 11, 6, 13, 11, 6, 13>>)), One, 64), Hex(<<2, 4, 9, 2, 4, 9, 2, 4, 9, 2, 4, 9, 2, 4, 9, 2>>)), And(m, Hex(<<13, 11, 6, 13, 11, 6, 13, 11, 6, 13, 11, 6, 13, 11, 6, 13>>))), 64)

\* morton.h:373
mortonxm3_8(m) ==
    Trunc(Or(And(Sub(And(m, Hex(<<4, 9>>)), One, 32), Hex(<<4, 9>>)), And(m, Hex(<<11, 6>>))), 8)

\* morton.h:383
mortonxm3_16(m) ==
    Trunc(Or(And(Sub(And(m, Hex(<<9, 2, 4, 9>>)), One, 32), Hex(<<9, 2, 4, 9>>)), And(m, Hex(<<6, 13, 11, 6>>))), 16)

\* mortonxm3_32 with the difference not masked
mortonxm3_32_nomask(m) ==
    Trunc(Or(Sub(And(m, Hex(<<4, 9, 2, 4, 9, 2, 4, 9>>)), One, 32), And(m, Hex(<<11, 6, 13, 11, 6, 13, 11, 6>>))), 32)

\* morton.h:393
mortonxm3_32(m) ==
    Trunc(Or(And(Sub(And(m, Hex(<<4, 9, 2, 4, 9, 2, 4, 9>>)), One, 32), Hex(<<4, 9, 2, 4, 9, 2, 4, 9>>)), And(m, Hex(<<11, 6, 13, 11, 6, 13, 11, 6>>))), 32)

\* morton.h:403
mortonxm3_64(m) ==
    Trunc(Or(And(Sub(And(m, Hex(<<9, 2, 4, 9, 2, 4, 9, 2, 4, 9, 2, 4, 9, 2, 4, 9>>)), One, 64), Hex(<<9, 2, 4, 9, 2, 4, 9, 2, 4, 9, 2, 4, 9, 2, 4, 9>>)), And(m, Hex(<<6, 13, 11, 6, 13, 11, 6, 13, 11, 6, 13, 11, 6, 13, 11, 6>>))), 64)

\* mortonxp3_8 with bit 1 missing from the fill mask, so the carry stops there
mortonxp3_8_fill(m) ==
    Trunc(Or(And(Add(Or(m, Hex(<<11, 4>>)), One, 32), Hex(<<4, 9>>)), And(m, Hex(<<11, 6>>))), 8)

\* morton.h:413
mortonxp3_8(m) ==
    Trunc(Or(And(Add(Or(m, Hex(<<11, 6>>)), One, 32), Hex(<<4, 9>>)), And(m, Hex(<<11, 6>>))), 8)

\* morton.h:423
mortonxp3_16(m) ==
    Trunc(Or(And(Add(Or(m, Hex(<<6, 13, 11, 6>>)), One, 32), Hex(<<9, 2, 4, 9>>)), And(m, Hex(<<6, 13, 11, 6>>))), 16)

\* morton.h:433
mortonxp3_32(m) ==
    Trunc(Or(And(Add(Or(m, Hex(<<11, 6, 13, 11, 6, 13, 11, 6>>)), One, 32), Hex(<<4, 9, 2, 4, 9, 2, 4, 9>>)), And(m, Hex(<<11, 6, 13, 11, 6, 13, 11, 6>>))), 32)

\* morton.h:443
mortonxp3_64(m) ==
    Trunc(Or(And(Add(Or(m, Hex(<<6, 13, 11, 6, 13, 11, 6, 13, 11, 6, 13, 11, 6, 13, 11, 6>>)), One, 64), Hex(<<9, 2, 4, 9, 2, 4, 9, 2, 4, 9, 2, 4, 9, 2, 4, 9>>)), And(m, Hex(<<6, 13, 11, 6, 13, 11, 6, 13, 11, 6, 13, 11, 6, 13, 11, 6>>))), 64)

\* mortonzm3_8 with the difference not masked
mortonzm3_8_nomask(m) ==
    Trunc(Or(Sub(And(m, Hex(<<2, 4>>)), One, 32), And(m, Hex(<<13, 11>>))), 8)

\* morton.h:453
mortonzm3_8(m) ==
    Trunc(Or(And(Sub(And(m, Hex(<<2, 4>>)), One, 32), Hex(<<2, 4>>)), And(m, Hex(<<13, 11>>))), 8)

\* morton.h:463
mortonzm3_16(m) ==
    Trunc(Or(And(Sub(And(m, Hex(<<4, 9, 2, 4>>)), One, 32), Hex(<<4, 9, 2, 4>>)), And(m, Hex(<<11, 6, 13, 11>>))), 16)

\* morton.h:473
mortonzm3_32(m) ==
    Trunc(Or(And(Sub(And(m, Hex(<<2, 4, 9, 2, 4, 9, 2, 4>>)), One, 32), Hex(<<2, 4, 9, 2, 4, 9, 2, 4>>)), And(m, Hex(<<13, 11, 6, 13, 11, 6, 13, 11>>))), 32)

\* mortonzm3_64 with the masks of mortonxm3_64
mortonzm3_64_xmask(m) ==
    Trunc(Or(And(Sub(And(m, Hex(<<9, 2, 4, 9, 2, 4, 9, 2, 4, 9, 2, 4, 9, 2, 4, 9>>)), One, 64), Hex(<<9, 2, 4, 9, 2, 4, 9, 2, 4, 9, 2, 4, 9, 2, 4, 9>>)), And(m, Hex(<<6, 13, 11, 6, 13, 11, 6, 13, 11, 6, 13, 11, 6, 13, 11, 6>>))), 64)

\* morton.h:483
mortonzm3_64(m) ==
    Trunc(Or(And(Sub(And(m, Hex(<<4, 9, 2, 4, 9, 2, 4, 9, 2, 4, 9, 2, 4, 9, 2, 4>>)), One, 64), Hex(<<4, 9, 2, 4, 9, 2, 4, 9, 2, 4, 9, 2, 4, 9, 2, 4>>)), And(m, Hex(<<11, 6, 13, 11, 6, 13, 11, 6, 13, 11, 6, 13, 11, 6, 13, 11>>))), 64)

\* morton.h:493
mortonzp3_8(m) ==
    Trunc(Or(And(Add(Or(m, Hex(<<13, 11>>)), One, 32), Hex(<<2, 4>>)), And(m, Hex(<<13, 11>>))), 8)

\* morton.h:503
mortonzp3_16(m) ==
    Trunc(Or(And(Add(Or(m, Hex(<<11, 6, 13, 11>>)), One, 32), Hex(<<4, 9, 2, 4>>)), And(m, Hex(<<11, 6, 13, 11>>))), 16)

\* morton.h:513
mortonzp3_32(m) ==
    Trunc(Or(And(Add(Or(m, Hex(<<13, 11, 6, 13, 11, 6, 13, 11>>)), One, 32), Hex(<<2, 4, 9, 2, 4, 9, 2, 4>>)), And(m, Hex(<<13, 11, 6, 13, 11, 6, 13, 11>>))), 32)

\* morton.h:523
mortonzp3_64(m) ==
    Trunc(Or(And(Add(Or(m, Hex(<<11, 6, 13, 11, 6, 13, 11, 6, 13, 11, 6, 13, 11, 6, 13, 11>>)), One, 64), Hex(<<4, 9, 2, 4, 9, 2, 4, 9, 2, 4, 9, 2, 4, 9, 2, 4>>)), And(m, Hex(<<11, 6, 13, 11, 6, 13, 11, 6, 13, 11, 6, 13, 11, 6, 13, 11>>))), 64)

(***************************************************************************)
(* popcount.h                                                              *)
(***************************************************************************)

\* popcount.h:17
popcount_8(x) ==
    LET x1 == Trunc(Sub(x, And(Shr(x, 1), Hex(<<5, 5>>)), 32), 8)
        x2 == Trunc(Add(And(x1, Hex(<<3, 3>>)), And(Shr(x1, 2), Hex(<<3, 3>>)), 32), 8)
        x3 == Trunc(And(Add(x2, Shr(x2, 4), 32), Hex(<<0, 15>>)), 8)
    IN  x3

\* popcount_16 with the result masked to 4 bits
popcount_16_mask0f(x) ==
    LET x1 == Trunc(Sub(x, And(Shr(x, 1), Hex(<<5, 5, 5, 5>>)), 32), 16)
        x2 == Trunc(Add(And(x1, Hex(<<3, 3, 3, 3>>)), And(Shr(x1, 2), Hex(<<3, 3, 3, 3>>)), 32), 16)
        x3 == Trunc(And(Add(x2, Shr(x2, 4), 32), Hex(<<0, 15, 0, 15>>)), 16)
        x4 == Trunc(Add(x3, Shr(x3, 8), 32), 16)
    IN  Trunc(And(x4, Hex(<<0, 15>>)), 16)

\* popcount.h:30
popcount_16(x) ==
    LET x1 == Trunc(Sub(x, And(Shr(x, 1), Hex(<<5, 5, 5, 5>>)), 32), 16)
        x2 == Trunc(Add(And(x1, Hex(<<3, 3, 3, 3>>)), And(Shr(x1, 2), Hex(<<3, 3, 3, 3>>)), 32), 16)
        x3 == Trunc(And(Add(x2, Shr(x2, 4), 32), Hex(<<0, 15, 0, 15>>)), 16)
        x4 == Trunc(Add(x3, Shr(x3, 8), 32), 16)
    IN  Trunc(And(x4, Hex(<<1, 15>>)), 16)

\* popcount.h:44
popcount_32(x) ==
    LET x1 == Trunc(Sub(x, And(Shr(x, 1), Hex(<<5, 5, 5, 5, 5, 5, 5, 5>>)), 32), 32)
        x2 == Trunc(Add(And(x1, Hex(<<3, 3, 3, 3, 3, 3, 3, 3>>)), And(Shr(x1, 2), Hex(<<3, 3, 3, 3, 3, 3, 3, 3>>)), 32), 32)
        x3 == Trunc(And(Add(x2, Shr(x2, 4), 32), Hex(<<0, 15, 0, 15, 0, 15, 0, 15>>)), 32)
        x4 == Trunc(Add(x3, Shr(x3, 8), 32), 32)
        x5 == Trunc(Add(x4, Shr(x4, 16), 32), 32)
    IN  Trunc(And(x5, Hex(<<3, 15>>)), 32)

\* popcount.h:59
popcount_64(x) ==
    LET x1 == Trunc(Sub(x, And(Shr(x, 1), Hex(<<5, 5, 5, 5, 5, 5, 5, 5, 5, 5, 5, 5, 5, 5, 5, 5>>)), 64), 64)
        x2 == Trunc(Add(And(x1, Hex(<<3, 3, 3, 3, 3, 3, 3, 3, 3, 3, 3, 3, 3, 3, 3, 3>>)), And(Shr(x1, 2), Hex(<<3, 3, 3, 3, 3, 3, 3, 3, 3, 3, 3, 3, 3, 3, 3, 3>>)), 64), 64)
        x3 == Trunc(And(Add(x2, Shr(x2, 4), 64), Hex(<<0, 15, 0, 15, 0, 15, 0, 15, 0, 15, 0, 15, 0, 15, 0, 15>>)), 64)
        x4 == Trunc(Add(x3, Shr(x3, 8), 64), 64)
        x5 == Trunc(Add(x4, Shr(x4, 16), 64), 64)
        x6 == Trunc(Add(x5, Shr(x5, 32), 64), 64)
    IN  Trunc(And(x6, Hex(<<7, 15>>)), 64)

\* popcount.h:76
popcount_mul_32(x) ==
    LET x1 == Trunc(Sub(x, And(Shr(x, 1), Hex(<<5, 5, 5, 5, 5, 5, 5, 5>>)), 32), 32)
        x2 == Trunc(Add(And(x1, Hex(<<3, 3, 3, 3, 3, 3, 3, 3>>)), And(Shr(x1, 2), Hex(<<3, 3, 3, 3, 3, 3, 3, 3>>)), 32), 32)
        x3 == Trunc(And(Add(x2, Shr(x2, 4), 32), Hex(<<0, 15, 0, 15, 0, 15, 0, 15>>)), 32)
    IN  Trunc(Shr(Mul(x3, Hex(<<0, 1, 0, 1, 0, 1, 0, 1>>), 32), 24), 32)

\* popcount.h:90
popcount_mul_64(x) ==
    LET x1 == Trunc(Sub(x, And(Shr(x, 1), Hex(<<5, 5, 5, 5, 5, 5, 5, 5, 5, 5, 5, 5, 5, 5, 5, 5>>)), 64), 64)
        x2 == Trunc(Add(And(x1, Hex(<<3, 3, 3, 3, 3, 3, 3, 3, 3, 3, 3, 3, 3, 3, 3, 3>>)), And(Shr(x1, 2), Hex(<<3, 3, 3, 3, 3, 3, 3, 3, 3, 3, 3, 3, 3, 3, 3, 3>>)), 64), 64)
        x3 == Trunc(And(Add(x2, Shr(x2, 4), 64), Hex(<<0, 15, 0, 15, 0, 15, 0, 15, 0, 15, 0, 15, 0, 15, 0, 15>>)), 64)
    IN  Trunc(Shr(Mul(x3, Hex(<<0, 1, 0, 1, 0, 1, 0, 1, 0, 1, 0, 1, 0, 1, 0, 1>>), 64), 56), 64)

\* popcount.h:108, the loop body of popcount_iter_32: x &= x - 1
popcount_iter_32_body(x) ==
    Trunc(And(x, Sub(x, One, 32)), 32)

\* popcount.h:107, the loop increment of popcount_iter_32: ++c
popcount_iter_32_incr(c) ==
    Trunc(Add(c, One, 32), 32)

\* popcount_iter_64_body with x shifted right instead of its lowest set bit cleared
popcount_iter_64_body_shr(x) ==
    Trunc(Shr(x, 1), 64)

\* popcount.h:123, the loop body of popcount_iter_64: x &= x - 1
popcount_iter_64_body(x) ==
    Trunc(And(x, Sub(x, One, 64)), 64)

\* popcount.h:122, the loop increment of popcount_iter_64: ++c
popcount_iter_64_incr(c) ==
    Trunc(Add(c, One, 64), 64)

\* the instantiation of the given width
popcount(width, v) ==
    CASE width = 8 -> popcount_8(v)
      [] width = 16 -> popcount_16(v)
      [] width = 32 -> popcount_32(v)
      [] width = 64 -> popcount_64(v)

\* the instantiation of the given width
popcount_mul(width, v) ==
    CASE width = 32 -> popcount_mul_32(v)
      [] width = 64 -> popcount_mul_64(v)

\* the instantiation of the given width
popcount_iter_body(width, v) ==
    CASE width = 32 -> popcount_iter_32_body(v)
      [] width = 64 -> popcount_iter_64_body(v)

\* the instantiation of the given width
popcount_iter_incr(width, v) ==
    CASE width = 32 -> popcount_iter_32_incr(v)
      [] width = 64 -> popcount_iter_64_incr(v)

(***************************************************************************)
(* Selection of the instantiation by width.                                *)
(***************************************************************************)

\* the scatter_W instantiation of the given width
scatter(width, v) ==
    CASE width = 8 -> scatter_8(v)
      [] width = 16 -> scatter_16(v)
      [] width = 32 -> scatter_32(v)
      [] width = 64 -> scatter_64(v)

\* the gather_W instantiation of the given width
gather(width, v) ==
    CASE width = 8 -> gather_8(v)
      [] width = 16 -> gather_16(v)
      [] width = 32 -> gather_32(v)
      [] width = 64 -> gather_64(v)

\* the merge_W instantiation of the given width
merge(width, a, b) ==
    CASE width = 8 -> merge_8(a, b)
      [] width = 16 -> merge_16(a, b)
      [] width = 32 -> merge_32(a, b)
      [] width = 64 -> merge_64(a, b)

\* the merge_nwe_W instantiation of the given width
merge_nwe(width, a, b) ==
    CASE width = 8 -> merge_nwe_8(a, b)
      [] width = 16 -> merge_nwe_16(a, b)
      [] width = 32 -> merge_nwe_32(a, b)

\* the separate_W instantiation of the given width
separate(width, k) ==
    CASE width = 8 -> separate_8(k)
      [] width = 16 -> separate_16(k)
      [] width = 32 -> separate_32(k)
      [] width = 64 -> separate_64(k)

\* the separate_nwe_W instantiation of the given width
separate_nwe(width, k) ==
    CASE width = 8 -> separate_nwe_8(k)
      [] width = 16 -> separate_nwe_16(k)
      [] width = 32 -> separate_nwe_32(k)

\* the scatter3_W instantiation of the given width
scatter3(width, v) ==
    CASE width = 8 -> scatter3_8(v)
      [] width = 16 -> scatter3_16(v)
      [] width = 32 -> scatter3_32(v)
      [] width = 64 -> scatter3_64(v)

\* the gather3_W instantiation of the given width
gather3(width, v) ==
    CASE width = 8 -> gather3_8(v)
      [] width = 16 -> gather3_16(v)
      [] width = 32 -> gather3_32(v)
      [] width = 64 -> gather3_64(v)

\* the merge3_W instantiation of the given width
merge3(width, a, b, c) ==
    CASE width = 8 -> merge3_8(a, b, c)
      [] width = 16 -> merge3_16(a, b, c)
      [] width = 32 -> merge3_32(a, b, c)
      [] width = 64 -> merge3_64(a, b, c)

\* the separate3_W instantiation of the given width
separate3(width, k) ==
    CASE width = 8 -> separate3_8(k)
      [] width = 16 -> separate3_16(k)
      [] width = 32 -> separate3_32(k)
      [] width = 64 -> separate3_64(k)

\* the mortonym_W instantiation of the given width
mortonym(width, k) ==
    CASE width = 8 -> mortonym_8(k)
      [] width = 16 -> mortonym_16(k)
      [] width = 32 -> mortonym_32(k)
      [] width = 64 -> mortonym_64(k)

\* the mortonyp_W instantiation of the given width
mortonyp(width, k) ==
    CASE width = 8 -> mortonyp_8(k)
      [] width = 16 -> mortonyp_16(k)
      [] width = 32 -> mortonyp_32(k)
      [] width = 64 -> mortonyp_64(k)

\* the mortonxm_W instantiation of the given width
mortonxm(width, k) ==
    CASE width = 8 -> mortonxm_8(k)
      [] width = 16 -> mortonxm_16(k)
      [] width = 32 -> mortonxm_32(k)
      [] width = 64 -> mortonxm_64(k)

\* the mortonxp_W instantiation of the given width
mortonxp(width, k) ==
    CASE width = 8 -> mortonxp_8(k)
      [] width = 16 -> mortonxp_16(k)
      [] width = 32 -> mortonxp_32(k)
      [] width = 64 -> mortonxp_64(k)

\* the mortonym3_W instantiation of the given width
mortonym3(width, k) ==
    CASE width = 8 -> mortonym3_8(k)
      [] width = 16 -> mortonym3_16(k)
      [] width = 32 -> mortonym3_32(k)
      [] width = 64 -> mortonym3_64(k)

\* the mortonyp3_W instantiation of the given width
mortonyp3(width, k) ==
    CASE width = 8 -> mortonyp3_8(k)
      [] width = 16 -> mortonyp3_16(k)
      [] width = 32 -> mortonyp3_32(k)
      [] width = 64 -> mortonyp3_64(k)

\* the mortonxm3_W instantiation of the given width
mortonxm3(width, k) ==
    CASE width = 8 -> mortonxm3_8(k)
      [] width = 16 -> mortonxm3_16(k)
      [] width = 32 -> mortonxm3_32(k)
      [] width = 64 -> mortonxm3_64(k)

\* the mortonxp3_W instantiation of the given width
mortonxp3(width, k) ==
    CASE width = 8 -> mortonxp3_8(k)
      [] width = 16 -> mortonxp3_16(k)
      [] width = 32 -> mortonxp3_32(k)
      [] width = 64 -> mortonxp3_64(k)

\* the mortonzm3_W instantiation of the given width
mortonzm3(width, k) ==
    CASE width = 8 -> mortonzm3_8(k)
      [] width = 16 -> mortonzm3_16(k)
      [] width = 32 -> mortonzm3_32(k)
      [] width = 64 -> mortonzm3_64(k)

\* the mortonzp3_W instantiation of the given width
mortonzp3(width, k) ==
    CASE width = 8 -> mortonzp3_8(k)
      [] width = 16 -> mortonzp3_16(k)
      [] width = 32 -> mortonzp3_32(k)
      [] width = 64 -> mortonzp3_64(k)
(***************************************************************************)
(* Inputs.                                                                 *)
(***************************************************************************)

\* largest number of bits by which a sampled input differs from a base pattern
MaxWeight == 1

\* coordinates confined to this many low bits are sampled exhaustively
CoordBits == 3

\* keys confined to this many low bits are sampled exhaustively
KeyBits == 8

\* largest number of neighbour steps of a walk from one start key
MaxSteps == 3

\* the four instantiations
Widths == {8, 16, 32, 64}

\* the two dimensionalities
Dims == {2, 3}

\* the number of low bits each coordinate may use (documented preconditions)
AxisBits(width, dim) ==
    IF dim = 2 THEN <<width \div 2, width \div 2, 0>>
    ELSE CASE width = 8 -> <<3, 3, 2>>
           [] width = 16 -> <<6, 5, 5>>
           [] width = 32 -> <<11, 11, 10>>
           [] width = 64 -> <<22, 21, 21>>

\* the subsets of U with at most k elements
RECURSIVE Small(_, _)
Small(U, k) ==
    IF k = 0 THEN {{}}
    ELSE LET S == Small(U, k - 1) IN S \cup { t \cup {e} : t \in S, e \in U }

\* the sets that differ from base in at most k elements of U
Near(base, U, k) == { (base \ t) \cup (t \ base) : t \in Small(U, k) }

\* valid coordinate tuples
ValidCoords(width, dim, a, b, c) ==
    /\ a \subseteq Bits(AxisBits(width, dim)[1])
    /\ b \subseteq Bits(AxisBits(width, dim)[2])
    /\ c \subseteq Bits(AxisBits(width, dim)[3])

\* the coordinate tuples the operations are applied to
Coords(width, dim) ==
    LET nb   == AxisBits(width, dim)
        U    == { <<a, k>> : a \in 1 .. 3, k \in 0 .. 63 } \cap
                UNION { { <<a, k>> : k \in Bits(nb[a]) } : a \in 1 .. 3 }
        pick(S) == << { p[2] : p \in { q \in S : q[1] = 1 } },
                      { p[2] : p \in { q \in S : q[1] = 2 } },
                      { p[2] : p \in { q \in S : q[1] = 3 } } >>
        low(a) == SUBSET (Bits(nb[a]) \cap Bits(CoordBits))
    IN  { pick(S) : S \in Near({}, U, MaxWeight) \cup Near(U, U, MaxWeight) }
        \cup (low(1) \X low(2) \X low(3))

\* the keys the operations are applied to
Keys(width, dim) ==
    LET class(r) == { i \in Bits(width) : i % dim = r }
        bases == { UNION { class(r) : r \in R } : R \in SUBSET (0 .. dim - 1) }
    IN  UNION { Near(b, Bits(width), MaxWeight) : b \in bases }
        \cup SUBSET (Bits(width) \cap Bits(KeyBits))

(***************************************************************************)
(* The codec.  A state holds the arguments and the result of the last      *)
(* call: cx, cy, cz are the coordinates, key the key, sp a spread word and *)
(* ga a gathered word; op names the function called last.  A call takes    *)
(* its arguments from the drawn inputs or from the result of the function  *)
(* it inverts.                                                             *)
(***************************************************************************)

\* no comparison, no walk and no popcount call is under way
OrderIdle == other = <<{}, {}, {}>> /\ okey = {}

WalkIdle == start = {} /\ net = <<0, 0, 0>> /\ limit = 0

PopIdle == arg = {} /\ acc = {} /\ cnt = {}

Init ==
    /\ OrderIdle /\ WalkIdle /\ PopIdle
    /\ w \in Widths
    /\ d \in Dims
    /\ op = "init"
    /\ sp = {}
    /\ ga = {}
    /\ prev = {}
    /\ steps = 0
    /\ \/ /\ \E c \in Coords(w, d) : cx = c[1] /\ cy = c[2] /\ cz = c[3]
          /\ key = {}
       \/ /\ key \in Keys(w, d)
          /\ cx = {} /\ cy = {} /\ cz = {}

\* sp = scatter_W(cx)
Scatter ==
    /\ d = 2
    /\ op = "init"
    /\ sp' = scatter(w, cx)
    /\ op' = "scatter"
    /\ UNCHANGED <<w, d, cx, cy, cz, key, ga, prev, steps, orderVars, walkVars, popVars>>

\* ga = gather_W(sp)
Gather ==
    /\ d = 2
    /\ op = "scatter"
    /\ ga' = gather(w, sp)
    /\ op' = "gather"
    /\ UNCHANGED <<w, d, cx, cy, cz, key, sp, prev, steps, orderVars, walkVars, popVars>>

\* key = merge_W(cx, cy)
Merge ==
    /\ d = 2
    /\ op \in {"init", "separate"}
    /\ key' = merge(w, cx, cy)
    /\ op' = "merge"
    /\ UNCHANGED <<w, d, cx, cy, cz, sp, ga, prev, steps, orderVars, walkVars, popVars>>

\* key = merge_nwe_W(cx, cy)
MergeNwe ==
    /\ d = 2
    /\ w # 64
    /\ op \in {"init", "separate_nwe"}
    /\ key' = merge_nwe(w, cx, cy)
    /\ op' = "merge_nwe"
    /\ UNCHANGED <<w, d, cx, cy, cz, sp, ga, prev, steps, orderVars, walkVars, popVars>>

\* separate_W(key, &cx, &cy)
Separate ==
    /\ d = 2
    /\ op \in {"init", "merge"}
    /\ LET r == separate(w, key) IN cx' = r[1] /\ cy' = r[2]
    /\ op' = "separate"
    /\ UNCHANGED <<w, d, cz, key, sp, ga, prev, steps, orderVars, walkVars, popVars>>

\* separate_nwe_W(key, &cx, &cy)
SeparateNwe ==
    /\ d = 2
    /\ w # 64
    /\ op \in {"init", "merge_nwe"}
    /\ LET r == separate_nwe(w, key) IN cx' = r[1] /\ cy' = r[2]
    /\ op' = "separate_nwe"
    /\ UNCHANGED <<w, d, cz, key, sp, ga, prev, steps, orderVars, walkVars, popVars>>

\* sp = scatter3_W(cx)
Scatter3 ==
    /\ d = 3
    /\ op = "init"
    /\ sp' = scatter3(w, cx)
    /\ op' = "scatter3"
    /\ UNCHANGED <<w, d, cx, cy, cz, key, ga, prev, steps, orderVars, walkVars, popVars>>

\* ga = gather3_W(sp)
Gather3 ==
    /\ d = 3
    /\ op = "scatter3"
    /\ ga' = gather3(w, sp)
    /\ op' = "gather3"
    /\ UNCHANGED <<w, d, cx, cy, cz, key, sp, prev, steps, orderVars, walkVars, popVars>>

\* key = merge3_W(cx, cy, cz)
Merge3 ==
    /\ d = 3
    /\ op \in {"init", "separate3"}
    /\ key' = merge3(w, cx, cy, cz)
    /\ op' = "merge3"
    /\ UNCHANGED <<w, d, cx, cy, cz, sp, ga, prev, steps, orderVars, walkVars, popVars>>

\* separate3_W(key, &cx, &cy, &cz)
Separate3 ==
    /\ d = 3
    /\ op \in {"init", "merge3"}
    /\ LET r == separate3(w, key) IN cx' = r[1] /\ cy' = r[2] /\ cz' = r[3]
    /\ op' = "separate3"
    /\ UNCHANGED <<w, d, key, sp, ga, prev, steps, orderVars, walkVars, popVars>>

Next ==
    \/ Scatter
    \/ Gather
    \/ Merge
    \/ MergeNwe
    \/ Separate
    \/ SeparateNwe
    \/ Scatter3
    \/ Gather3
    \/ Merge3
    \/ Separate3

Spec == Init /\ [][Next]_vars

(***************************************************************************)
(* Neighbour arithmetic: a walk in key space.  key is the current key and  *)
(* prev the key before the last step.                                      *)
(***************************************************************************)

InitNeighbor ==
    /\ w \in Widths
    /\ d \in Dims
    /\ key \in Keys(w, d)
    /\ prev = key
    /\ op = "init"
    /\ steps = 0
    /\ start = key
    /\ net = <<0, 0, 0>>
    /\ limit = 1
    /\ cx = {} /\ cy = {} /\ cz = {} /\ sp = {} /\ ga = {}
    /\ OrderIdle /\ PopIdle

\* key = mortonym_W(key)
Mortonym ==
    /\ d = 2
    /\ steps < limit
    /\ prev' = key
    /\ key' = mortonym(w, key)
    /\ op' = "mortonym"
    /\ steps' = steps + 1
    /\ net' = [net EXCEPT ![2] = @ - 1]
    /\ UNCHANGED <<w, d, cx, cy, cz, sp, ga, start, limit, orderVars, popVars>>

\* key = mortonyp_W(key)
Mortonyp ==
    /\ d = 2
    /\ steps < limit
    /\ prev' = key
    /\ key' = mortonyp(w, key)
    /\ op' = "mortonyp"
    /\ steps' = steps + 1
    /\ net' = [net EXCEPT ![2] = @ + 1]
    /\ UNCHANGED <<w, d, cx, cy, cz, sp, ga, start, limit, orderVars, popVars>>

\* key = mortonxm_W(key)
Mortonxm ==
    /\ d = 2
    /\ steps < limit
    /\ prev' = key
    /\ key' = mortonxm(w, key)
    /\ op' = "mortonxm"
    /\ steps' = steps + 1
    /\ net' = [net EXCEPT ![1] = @ - 1]
    /\ UNCHANGED <<w, d, cx, cy, cz, sp, ga, start, limit, orderVars, popVars>>

\* key = mortonxp_W(key)
Mortonxp ==
    /\ d = 2
    /\ steps < limit
    /\ prev' = key
    /\ key' = mortonxp(w, key)
    /\ op' = "mortonxp"
    /\ steps' = steps + 1
    /\ net' = [net EXCEPT ![1] = @ + 1]
    /\ UNCHANGED <<w, d, cx, cy, cz, sp, ga, start, limit, orderVars, popVars>>

\* key = mortonym3_W(key)
Mortonym3 ==
    /\ d = 3
    /\ steps < limit
    /\ prev' = key
    /\ key' = mortonym3(w, key)
    /\ op' = "mortonym3"
    /\ steps' = steps + 1
    /\ net' = [net EXCEPT ![2] = @ - 1]
    /\ UNCHANGED <<w, d, cx, cy, cz, sp, ga, start, limit, orderVars, popVars>>

\* key = mortonyp3_W(key)
Mortonyp3 ==
    /\ d = 3
    /\ steps < limit
    /\ prev' = key
    /\ key' = mortonyp3(w, key)
    /\ op' = "mortonyp3"
    /\ steps' = steps + 1
    /\ net' = [net EXCEPT ![2] = @ + 1]
    /\ UNCHANGED <<w, d, cx, cy, cz, sp, ga, start, limit, orderVars, popVars>>

\* key = mortonxm3_W(key)
Mortonxm3 ==
    /\ d = 3
    /\ steps < limit
    /\ prev' = key
    /\ key' = mortonxm3(w, key)
    /\ op' = "mortonxm3"
    /\ steps' = steps + 1
    /\ net' = [net EXCEPT ![1] = @ - 1]
    /\ UNCHANGED <<w, d, cx, cy, cz, sp, ga, start, limit, orderVars, popVars>>

\* key = mortonxp3_W(key)
Mortonxp3 ==
    /\ d = 3
    /\ steps < limit
    /\ prev' = key
    /\ key' = mortonxp3(w, key)
    /\ op' = "mortonxp3"
    /\ steps' = steps + 1
    /\ net' = [net EXCEPT ![1] = @ + 1]
    /\ UNCHANGED <<w, d, cx, cy, cz, sp, ga, start, limit, orderVars, popVars>>

\* key = mortonzm3_W(key)
Mortonzm3 ==
    /\ d = 3
    /\ steps < limit
    /\ prev' = key
    /\ key' = mortonzm3(w, key)
    /\ op' = "mortonzm3"
    /\ steps' = steps + 1
    /\ net' = [net EXCEPT ![3] = @ - 1]
    /\ UNCHANGED <<w, d, cx, cy, cz, sp, ga, start, limit, orderVars, popVars>>

\* key = mortonzp3_W(key)
Mortonzp3 ==
    /\ d = 3
    /\ steps < limit
    /\ prev' = key
    /\ key' = mortonzp3(w, key)
    /\ op' = "mortonzp3"
    /\ steps' = steps + 1
    /\ net' = [net EXCEPT ![3] = @ + 1]
    /\ UNCHANGED <<w, d, cx, cy, cz, sp, ga, start, limit, orderVars, popVars>>

NextNeighbor ==
    \/ Mortonym
    \/ Mortonyp
    \/ Mortonxm
    \/ Mortonxp
    \/ Mortonym3
    \/ Mortonyp3
    \/ Mortonxm3
    \/ Mortonxp3
    \/ Mortonzm3
    \/ Mortonzp3

SpecNeighbor == InitNeighbor /\ [][NextNeighbor]_vars

(***************************************************************************)
(* Walks: up to MaxSteps neighbour steps are taken from one start key.     *)
(* start is the key the walk began at and net[a + 1] the number of +1      *)
(* steps minus the number of -1 steps taken along axis a.                  *)
(***************************************************************************)

\* the start keys of the walks: every union of axis classes, with the bits
\* of the lowest cell of the grid set or cleared
WalkKeys(width, dim) ==
    LET class(r) == { i \in Bits(width) : i % dim = r }
        bases == { UNION { class(r) : r \in R } : R \in SUBSET (0 .. dim - 1) }
    IN  { (b \ t) \cup (t \ b) : b \in bases, t \in SUBSET Bits(dim) }

InitWalk ==
    /\ w \in Widths
    /\ d \in Dims
    /\ key \in WalkKeys(w, d)
    /\ prev = key
    /\ op = "init"
    /\ steps = 0
    /\ start = key
    /\ net = <<0, 0, 0>>
    /\ limit = MaxSteps
    /\ cx = {} /\ cy = {} /\ cz = {} /\ sp = {} /\ ga = {}
    /\ OrderIdle /\ PopIdle

SpecWalk == InitWalk /\ [][NextNeighbor]_vars

(***************************************************************************)
(* Ordering of keys: two coordinate tuples are encoded and their keys      *)
(* compared as unsigned integers.  (cx, cy, cz) and other are the tuples,  *)
(* key and okey their keys.                                                *)
(***************************************************************************)

\* coordinates confined to this many low bits are compared exhaustively
OrderBits == 1

\* the coordinate tuples that are compared: all zero or all ones except for
\* at most one bit, and all tuples confined to the low OrderBits bits
OrderCoords(width, dim) ==
    LET nb   == AxisBits(width, dim)
        U    == UNION { { <<a, k>> : k \in Bits(nb[a]) } : a \in 1 .. 3 }
        pick(S) == << { p[2] : p \in { q \in S : q[1] = 1 } },
                      { p[2] : p \in { q \in S : q[1] = 2 } },
                      { p[2] : p \in { q \in S : q[1] = 3 } } >>
        one  == {{}} \cup { {e} : e \in U }
        low(a) == SUBSET (Bits(nb[a]) \cap Bits(OrderBits))
    IN  { pick(S) : S \in one } \cup { pick(U \ S) : S \in one }
        \cup (low(1) \X low(2) \X low(3))

InitOrder ==
    /\ w \in Widths
    /\ d \in Dims
    /\ \E c \in OrderCoords(w, d) : cx = c[1] /\ cy = c[2] /\ cz = c[3]
    /\ other \in OrderCoords(w, d)
    /\ key = {}
    /\ okey = {}
    /\ op = "init"
    /\ steps = 0
    /\ prev = {} /\ sp = {} /\ ga = {}
    /\ WalkIdle /\ PopIdle

\* key = merge_W(cx, cy); okey = merge_W(other)
MergeBoth ==
    /\ d = 2
    /\ op = "init"
    /\ key' = merge(w, cx, cy)
    /\ okey' = merge(w, other[1], other[2])
    /\ op' = "merge_both"
    /\ UNCHANGED <<w, d, cx, cy, cz, sp, ga, prev, steps, other, walkVars, popVars>>

\* key = merge3_W(cx, cy, cz); okey = merge3_W(other)
Merge3Both ==
    /\ d = 3
    /\ op = "init"
    /\ key' = merge3(w, cx, cy, cz)
    /\ okey' = merge3(w, other[1], other[2], other[3])
    /\ op' = "merge3_both"
    /\ UNCHANGED <<w, d, cx, cy, cz, sp, ga, prev, steps, other, walkVars, popVars>>

NextOrder ==
    \/ MergeBoth
    \/ Merge3Both

SpecOrder == InitOrder /\ [][NextOrder]_vars

(***************************************************************************)
(* Population count.  arg is the argument of the call, cnt the value       *)
(* returned; popcount_iter_W runs its loop one iteration per step, with    *)
(* acc its local x and cnt its counter c.                                  *)
(***************************************************************************)

\* the arguments of the popcount calls
PopInputs(width) ==
    Near({}, Bits(width), MaxWeight) \cup Near(Bits(width), Bits(width), MaxWeight)
        \cup SUBSET (Bits(width) \cap Bits(KeyBits))

InitPopcount ==
    /\ w \in Widths
    /\ arg \in PopInputs(w)
    /\ acc = {}
    /\ cnt = {}
    /\ op = "init"
    /\ d = 2
    /\ steps = 0
    /\ cx = {} /\ cy = {} /\ cz = {} /\ key = {} /\ sp = {} /\ ga = {} /\ prev = {}
    /\ OrderIdle /\ WalkIdle

\* cnt = popcount_W(arg)
Popcount ==
    /\ op = "init"
    /\ cnt' = popcount(w, arg)
    /\ op' = "popcount"
    /\ UNCHANGED <<w, d, cx, cy, cz, key, sp, ga, prev, steps, orderVars, walkVars, arg, acc>>

\* cnt = popcount_mul_W(arg)
PopcountMul ==
    /\ w \in {32, 64}
    /\ op = "init"
    /\ cnt' = popcount_mul(w, arg)
    /\ op' = "popcount_mul"
    /\ UNCHANGED <<w, d, cx, cy, cz, key, sp, ga, prev, steps, orderVars, walkVars, arg, acc>>

\* popcount_iter_W(arg) is entered: x = arg, c = 0
IterEnter ==
    /\ w \in {32, 64}
    /\ op = "init"
    /\ acc' = arg
    /\ cnt' = {}
    /\ op' = "popcount_iter_loop"
    /\ UNCHANGED <<w, d, cx, cy, cz, key, sp, ga, prev, steps, orderVars, walkVars, arg>>

\* one iteration of the loop: x > 0, x &= x - 1, ++c
IterStep ==
    /\ op = "popcount_iter_loop"
    /\ acc # {}
    /\ acc' = popcount_iter_body(w, acc)
    /\ cnt' = popcount_iter_incr(w, cnt)
    /\ UNCHANGED <<w, d, cx, cy, cz, key, sp, ga, prev, steps, orderVars, walkVars, arg, op>>

\* the loop exits, x = 0: return c
IterReturn ==
    /\ op = "popcount_iter_loop"
    /\ acc = {}
    /\ op' = "popcount_iter"
    /\ UNCHANGED <<w, d, cx, cy, cz, key, sp, ga, prev, steps, orderVars, walkVars, arg, acc, cnt>>

NextPopcount ==
    \/ Popcount
    \/ PopcountMul
    \/ IterEnter
    \/ IterStep
    \/ IterReturn

SpecPopcount == InitPopcount /\ [][NextPopcount]_vars

(***************************************************************************)
(* The interleaved layout the documentation describes, stated without the  *)
(* code: bit k of axis a lives at key bit k * dim + a.                     *)
(***************************************************************************)

\* the coordinate c of axis a placed at its key positions
Place(c, dim, a) == { k * dim + a : k \in c }

\* the key holding the coordinates a, b, c of axes 0, 1, 2
Layout(dim, a, b, c) ==
    Place(a, dim, 0) \cup Place(b, dim, 1) \cup (IF dim = 3 THEN Place(c, dim, 2) ELSE {})

\* the key bits owned by axis a
Owned(width, dim, a) == { i \in Bits(width) : i % dim = a }

\* the axis a neighbour function steps along
AxisOf(name) ==
    CASE name \in {"mortonxm", "mortonxp", "mortonxm3", "mortonxp3"} -> 0
      [] name \in {"mortonym", "mortonyp", "mortonym3", "mortonyp3"} -> 1
      [] name \in {"mortonzm3", "mortonzp3"} -> 2

\* the neighbour functions of direction +1 and of direction -1
PlusOps == {"mortonxp", "mortonyp", "mortonxp3", "mortonyp3", "mortonzp3"}

MinusOps == {"mortonxm", "mortonym", "mortonxm3", "mortonym3", "mortonzm3"}

\* the neighbour function of the same axis and the opposite direction, applied to k
Opposite(name, width, k) ==
    CASE name = "mortonxp" -> mortonxm(width, k)
      [] name = "mortonyp" -> mortonym(width, k)
      [] name = "mortonxp3" -> mortonxm3(width, k)
      [] name = "mortonyp3" -> mortonym3(width, k)
      [] name = "mortonzp3" -> mortonzm3(width, k)

\* encode and decode of the codec for the dimensionality
Encode(width, dim, c) ==
    IF dim = 2 THEN merge(width, c[1], c[2]) ELSE merge3(width, c[1], c[2], c[3])

Decode(width, dim, k) ==
    IF dim = 2 THEN LET r == separate(width, k) IN <<r[1], r[2], {}>> ELSE separate3(width, k)

\* coordinate tuple c with the coordinate of axis a moved by +1 or -1,
\* modulo 2^(number of key bits the axis owns)
Adjust(width, dim, c, a, plus) ==
    LET nb == Cardinality(Owned(width, dim, a))
        v  == IF plus THEN Add(c[a + 1], One, nb) ELSE Sub(c[a + 1], One, nb)
    IN  [c EXCEPT ![a + 1] = v]

(***************************************************************************)
(* Claims.                                                                 *)
(***************************************************************************)

\* C1: 2D round trip.  For every width and every valid pair (cx, cy),
\* separate_W(merge_W(cx, cy)) = (cx, cy), and for widths 8, 16, 32
\* separate_nwe_W(merge_nwe_W(cx, cy)) = (cx, cy).
C1_RoundTrip2D ==
    /\ (op = "merge" /\ ValidCoords(w, 2, cx, cy, cz)) => separate(w, key) = <<cx, cy>>
    /\ (op = "merge_nwe" /\ ValidCoords(w, 2, cx, cy, cz)) => separate_nwe(w, key) = <<cx, cy>>

\* a 64 bit merge of an all-ones x and a y with its top bit clear
C1_Witness ==
    /\ op = "merge" /\ w = 64
    /\ cx = Bits(32) /\ cy = Bits(31)

\* C2: 3D round trip.  For every width and every valid triple (cx, cy, cz),
\* separate3_W(merge3_W(cx, cy, cz)) = (cx, cy, cz).
C2_RoundTrip3D ==
    (op = "merge3" /\ ValidCoords(w, 3, cx, cy, cz)) => separate3(w, key) = <<cx, cy, cz>>

\* C3: re-encoding a decoded key is the identity for every key, every width
\* and both dimensionalities.
C3_ReEncode ==
    /\ op = "separate" => merge(w, cx, cy) = key
    /\ op = "separate_nwe" => merge_nwe(w, cx, cy) = key
    /\ op = "separate3" => merge3(w, cx, cy, cz) = key

\* C4: key layout.  For every valid coordinate tuple the encoded key holds
\* bit k of axis a at bit position k * D + a and nothing else, for merge_W,
\* merge_nwe_W and merge3_W.
C4_KeyLayout ==
    (op \in {"merge", "merge_nwe", "merge3"} /\ ValidCoords(w, d, cx, cy, cz))
        => key = Layout(d, cx, cy, cz)

\* C5: spread contract.  For every valid cx (low W/2 bits for scatter_W; low
\* 3, 6, 11, 22 bits for scatter3_8/16/32/64) the result has bit k * D set
\* exactly when bit k of cx is set and every other bit zero.
C5_Spread ==
    (op \in {"scatter", "scatter3"} /\ cx \subseteq Bits(AxisBits(w, d)[1]))
        => sp = Place(cx, d, 0)

\* scatter3_64 of the all-ones 22 bit coordinate
C5_Witness ==
    /\ op = "scatter3" /\ w = 64
    /\ cx = Bits(22)
    /\ sp = { 3 * k : k \in 0 .. 21 }

\* C6: collect is the left inverse of spread.  For every valid cx,
\* gather_W(scatter_W(cx)) = cx and gather3_W(scatter3_W(cx)) = cx.
C6_GatherScatter ==
    (op \in {"gather", "gather3"} /\ cx \subseteq Bits(AxisBits(w, d)[1]))
        => ga = cx

\* gather3_32 of scatter3_32 of the all-ones 11 bit coordinate
C6_Witness ==
    /\ op = "gather3" /\ w = 32
    /\ cx = Bits(11)
    /\ ga = Bits(11)

\* C7: the wide-intermediate and the same-width 2D variants agree.  For
\* widths 8, 16, 32, merge_W(cx, cy) = merge_nwe_W(cx, cy) for every valid
\* pair and separate_W(key) = separate_nwe_W(key) for every key.
C7_VariantsAgree ==
    /\ (op = "merge" /\ w # 64 /\ ValidCoords(w, 2, cx, cy, cz)) => key = merge_nwe(w, cx, cy)
    /\ (op = "separate" /\ w # 64) => <<cx, cy>> = separate_nwe(w, key)

\* separate_32 of the all-ones key
C7_Witness ==
    /\ op = "separate" /\ w = 32
    /\ key = Bits(32)
    /\ cx = Bits(16) /\ cy = Bits(16)

\* C8: neighbour consistency with the codec.  For every width, D, axis,
\* direction and key, the neighbour function's result equals encode of
\* decode(key) with that axis's coordinate moved by the direction modulo
\* 2^(number of key bits the axis owns).
C8_NeighborCodec ==
    op \in PlusOps \cup MinusOps
        => key = Encode(w, d, Adjust(w, d, Decode(w, d, prev), AxisOf(op), op \in PlusOps))

\* C9: neighbour reversibility.  For every width, D, axis and key, the -1
\* neighbour of the +1 neighbour of the same axis is the original key.
C9_Reversible ==
    op \in PlusOps => Opposite(op, w, key) = prev

\* mortonzp3_64 of the all-ones key, where z wraps
C9_Witness ==
    /\ op = "mortonzp3" /\ w = 64
    /\ prev = Bits(64)
    /\ key = Bits(64) \ Owned(64, 3, 2)

\* C10: toroidal wraparound.  If all key bits owned by the axis are 1 the +1
\* neighbour has all of them 0; if all are 0 the -1 neighbour has all of
\* them 1; in both cases the bits of the other axes are unchanged.
C10_Wraparound ==
    LET M == Owned(w, d, AxisOf(op)) IN
    /\ (op \in PlusOps /\ M \subseteq prev) => (key \cap M = {} /\ key \ M = prev \ M)
    /\ (op \in MinusOps /\ prev \cap M = {}) => (M \subseteq key /\ key \ M = prev \ M)

\* mortonzm3_8 of 0xdb (z = 0, x and y all ones): z wraps from 0 to 3
C10_Witness ==
    /\ op = "mortonzm3" /\ w = 8
    /\ prev = Hex(<<13, 11>>)
    /\ key = Bits(8)

\* the largest element of a non-empty set of integers
MaxOf(S) == CHOOSE i \in S : \A j \in S : j <= i

\* a < b as unsigned integers
ULess(a, b) ==
    LET df == (a \ b) \cup (b \ a) IN df # {} /\ MaxOf(df) \in b

\* tuple a precedes tuple b in Z-order: at the most significant bit level at
\* which they differ, and there at the highest axis that differs, b has the bit
ZLess(a, b) ==
    LET df == { <<k, i>> \in (0 .. 63) \X (1 .. 3) : (k \in a[i]) # (k \in b[i]) }
        top == CHOOSE p \in df : \A q \in df : q[1] < p[1] \/ (q[1] = p[1] /\ q[2] <= p[2])
    IN  df # {} /\ top[1] \in b[top[2]]

\* C11: order preservation.  For every width and D and any two valid tuples
\* a and b, a precedes b in Z-order iff encode(a) < encode(b) as unsigned
\* integers; in particular encode is injective on valid tuples.
C11_OrderPreserved ==
    op \in {"merge_both", "merge3_both"}
        => /\ ZLess(<<cx, cy, cz>>, other) <=> ULess(key, okey)
           /\ key = okey => <<cx, cy, cz>> = other

\* C12 as stated: mortonym_8(0x99) equals encode(0x05, 0x09), and that value
\* is 0x95.
C12_Scenario95 ==
    (op = "mortonym" /\ w = 8 /\ prev = Hex(<<9, 9>>))
        => (key = merge_8(Hex(<<0, 5>>), Hex(<<0, 9>>)) /\ key = Hex(<<9, 5>>))

\* C12 (amended): mortonym_8(0x99) equals encode(0x05, 0x09), and that value
\* is 0x93.
C12_Scenario93 ==
    (op = "mortonym" /\ w = 8 /\ prev = Hex(<<9, 9>>))
        => (key = merge_8(Hex(<<0, 5>>), Hex(<<0, 9>>)) /\ key = Hex(<<9, 3>>))

\* mortonym_8 has been applied to 0x99
C12_Witness ==
    /\ op = "mortonym" /\ w = 8
    /\ prev = Hex(<<9, 9>>)
    /\ separate_8(prev) = <<Hex(<<0, 5>>), Hex(<<0, 10>>)>>

\* the word holding the number k
RECURSIVE WordOf(_)
WordOf(k) ==
    IF k = 0 THEN {}
    ELSE (IF k % 2 = 1 THEN {0} ELSE {}) \cup { i + 1 : i \in WordOf(k \div 2) }

\* C13: popcount.  Each of popcount_8/16/32/64, popcount_mul_32/64 and
\* popcount_iter_32/64 returns exactly the number of set bits of its argument.
C13_Popcount ==
    op \in {"popcount", "popcount_mul", "popcount_iter"} => cnt = WordOf(Cardinality(arg))

\* popcount_mul_64 of the all-ones word returns 64
C13_Witness ==
    /\ op = "popcount_mul" /\ w = 64
    /\ arg = Bits(64)
    /\ cnt = {6}

\* the general carry-confined step of key k along the axis whose mask is M,
\* computed modulo 2^width
General(width, k, M, plus) ==
    LET notM == Bits(width) \ M
    IN  IF plus THEN Or(And(Add(Or(k, notM), One, width), M), And(k, notM))
        ELSE Or(And(Sub(And(k, M), One, width), M), And(k, notM))

\* the axis masks of one width are pairwise disjoint and cover the width
MasksPartition(width, dim) ==
    /\ \A a, b \in 0 .. dim - 1 : a # b => Owned(width, dim, a) \cap Owned(width, dim, b) = {}
    /\ UNION { Owned(width, dim, a) : a \in 0 .. dim - 1 } = Bits(width)

\* C14: every named neighbour function is the general carry-confined
\* algorithm with the mask M of its axis (the bit positions i of the width
\* with i mod D = axis) and the exact complement of M within the width: its
\* result is (((key | ~M) + 1) & M) | (key & ~M) for +1 and
\* (((key & M) - 1) & M) | (key & ~M) for -1, computed modulo 2^width, also
\* for the 8 and 16 bit versions that compute in promoted arithmetic; the D
\* masks of one width are pairwise disjoint and cover all bits.
C14_GeneralAlgorithm ==
    op \in PlusOps \cup MinusOps
        => /\ key = General(w, prev, Owned(w, d, AxisOf(op)), op \in PlusOps)
           /\ MasksPartition(w, d)

\* mortonxm3_16 of 0 gives the x mask 0x9249: the borrow runs through every
\* bit of the promoted difference and is cut to the mask
C14_Witness ==
    /\ op = "mortonxm3" /\ w = 16
    /\ prev = {}
    /\ key = Hex(<<9, 2, 4, 9>>)

\* C15: carry confinement.  For every width, D, axis, direction and key the
\* neighbour function changes only bits owned by its axis (result & ~M =
\* key & ~M), so the decoded coordinates of all other axes are the same
\* before and after the step.
C15_Frame ==
    op \in PlusOps \cup MinusOps
        => LET M == Owned(w, d, AxisOf(op)) IN
           /\ key \ M = prev \ M
           /\ \A a \in (0 .. d - 1) \ {AxisOf(op)} :
                  Decode(w, d, key)[a + 1] = Decode(w, d, prev)[a + 1]

\* mortonyp_32 of 0xfffffffe: the carry runs through all y bits and leaves
\* the x bits, bit 0 clear among them, as they were
C15_Witness ==
    /\ op = "mortonyp" /\ w = 32
    /\ prev = Bits(32) \ {0}
    /\ key = Owned(32, 2, 0) \ {0}

\* coordinate tuple c with the coordinate of axis a moved n times by one,
\* upwards for n > 0 and downwards for n < 0
RECURSIVE Moved(_, _, _, _, _)
Moved(width, dim, c, a, n) ==
    IF n = 0 THEN c
    ELSE IF n > 0 THEN Moved(width, dim, Adjust(width, dim, c, a, TRUE), a, n - 1)
    ELSE Moved(width, dim, Adjust(width, dim, c, a, FALSE), a, n + 1)

\* C16: a walk in key space stays consistent with coordinate space.  After
\* any sequence of neighbour steps of one width and D from a start key, the
\* decoded coordinates of the current key are the decoded coordinates of the
\* start key with each axis moved by (number of +1 steps minus number of -1
\* steps on that axis) modulo 2^(number of key bits owned by that axis).
C16_Walk ==
    Decode(w, d, key) =
        Moved(w, d, Moved(w, d, Moved(w, d, Decode(w, d, start), 0, net[1]), 1, net[2]), 2, net[3])

\* an 8 bit 3D walk from 0 of one step down along z and one step down along
\* x: both axes have wrapped to their largest coordinate
C16_Witness ==
    /\ w = 8 /\ d = 3 /\ steps = 2
    /\ start = {}
    /\ net = <<-1, 0, -1>>
    /\ key = Owned(8, 3, 0) \cup Owned(8, 3, 2)

\* the smallest element of a non-empty set of integers
MinOf(S) == CHOOSE i \in S : \A j \in S : i <= j

\* during and after the loop the counter is the number of bits cleared so far,
\* and the value returned is the number of set bits of the argument
IterCounts ==
    /\ op \in {"popcount_iter_loop", "popcount_iter"}
        => (acc \subseteq arg /\ cnt = WordOf(Cardinality(arg) - Cardinality(acc)))
    /\ op = "popcount_iter" => (acc = {} /\ cnt = WordOf(Cardinality(arg)))

\* an iteration clears exactly the lowest set bit and counts one; the loop
\* is left only when x = 0
IterClearsLowest ==
    /\ (op = "popcount_iter_loop" /\ op' = "popcount_iter_loop")
        => /\ acc # {} /\ acc' = acc \ {MinOf(acc)}
           /\ Cardinality(acc') = Cardinality(acc) - 1
           /\ cnt' = Add(cnt, One, w)
    /\ (op = "popcount_iter_loop" /\ op' = "popcount_iter")
        => (acc = {} /\ cnt' = cnt)

\* C17: the loop of popcount_iter_32 / popcount_iter_64 terminates for every
\* argument and runs one iteration per set bit: each iteration clears exactly
\* the lowest set bit of x (so the number of set bits of x, at most the
\* width, falls by one with every iteration), the loop is left exactly when
\* x = 0, and the counter returned is the number of set bits of the argument.
C17_IterLoop ==
    /\ [](IterCounts /\ Cardinality(arg) <= w)
    /\ [][IterClearsLowest]_vars

\* popcount_iter_64 of the all-ones word has returned 64 after 64 iterations
C17_Witness ==
    /\ op = "popcount_iter" /\ w = 64
    /\ arg = Bits(64)
    /\ acc = {}
    /\ cnt = {6}

\* the neighbour function called name applied to k
Apply(name, width, k) ==
    CASE name = "mortonym" -> mortonym(width, k)
      [] name = "mortonyp" -> mortonyp(width, k)
      [] name = "mortonxm" -> mortonxm(width, k)
      [] name = "mortonxp" -> mortonxp(width, k)
      [] name = "mortonym3" -> mortonym3(width, k)
      [] name = "mortonyp3" -> mortonyp3(width, k)
      [] name = "mortonxm3" -> mortonxm3(width, k)
      [] name = "mortonxp3" -> mortonxp3(width, k)
      [] name = "mortonzm3" -> mortonzm3(width, k)
      [] name = "mortonzp3" -> mortonzp3(width, k)

\* the neighbour functions of the dimensionality
OpsOf(dim) ==
    IF dim = 2 THEN {"mortonym", "mortonyp", "mortonxm", "mortonxp"}
    ELSE {"mortonym3", "mortonyp3", "mortonxm3", "mortonxp3", "mortonzm3", "mortonzp3"}

\* C18: neighbour steps along different axes commute.  For every width, D
\* and key m and any two neighbour functions f and g of that width and D
\* that belong to different axes, f(g(m)) = g(f(m)).
C18_Commute ==
    op \in PlusOps \cup MinusOps
        => \A f \in OpsOf(d) :
               AxisOf(f) # AxisOf(op) => Apply(f, w, key) = Apply(op, w, Apply(f, w, prev))

\* mortonxm3_64 of 0, where x wraps: stepping z up before or after gives the
\* same key
C18_Witness ==
    /\ op = "mortonxm3" /\ w = 64
    /\ prev = {}
    /\ key = Owned(64, 3, 0)
    /\ mortonzp3(64, key) = Owned(64, 3, 0) \cup {2}

\* C19: decode is lossless on its own.  For every width and D, 8 bit D = 3
\* included, every coordinate separate_W, separate_nwe_W and separate3_W
\* return has only the low bits owned by its axis set, and placing coordinate
\* bit k of axis a at key bit k * D + a gives the key back, so distinct keys
\* decode to distinct tuples.
C19_DecodeLossless ==
    op \in {"separate", "separate_nwe", "separate3"}
        => /\ ValidCoords(w, d, cx, cy, cz)
           /\ Layout(d, cx, cy, cz) = key

\* separate3_8 of the all-ones key: x = 7, y = 7, z = 3
C19_Witness ==
    /\ op = "separate3" /\ w = 8
    /\ key = Bits(8)
    /\ cx = Bits(3) /\ cy = Bits(3) /\ cz = Bits(2)

====
